---- MODULE Spec2Model ----
(***************************************************************************)
(* Model of alea-aircursor: HandTracker (src/gesture.py) driven by the     *)
(* MainWindow frame timer (src/main.py).                                   *)
(*                                                                         *)
(* Time is counted in ticks of 0.05 s, so cooldown 0.4 s is 8 ticks and    *)
(* scroll_interval 0.1 s and hold_cooldown 0.1 s are 2 ticks; two frames   *)
(* are at least one tick apart.  Distances are in pixels.                  *)
(*                                                                         *)
(* The diagnostic landmark colours (landmark_colors, draw_points_only)     *)
(* never influence an actuator call and are not modelled; the target       *)
(* coordinates of pyautogui.moveTo are not modelled either (the call is).  *)
(***************************************************************************)
EXTENDS Integers, Sequences, FiniteSets

\* ---------------------------------------------------------------- constants
\* HandTracker(...) as constructed by MainWindow.__init__ (main.py:34-44)
ClickRadius == 20
HoverRadius == 25
RightClickRadius == 50
RightHoverRadius == 60
HoldClickRadius == 30
HoldHoverRadius == 35
ScrollRadius == 25
ScrollHoverRadius == 30
ScrollSpeed == 60
\* cooldown = 0.4 s, scroll_interval = 0.1 s, hold_cooldown = 0.1 s, in ticks
Cooldown == 8
ScrollInterval == 2
HoldCooldown == 2
\* dead-band of the scroll direction (gesture.py:153), in pixels
DeadBand == 15
\* len(hand_landmarks.landmark) of a complete hand
FullHand == 21

\* ------------------------------------------------------------------- bounds
\* frames are processed while the clock has advanced at most this far:
\* in the sessions of sustained click contact, in the sessions of one gesture
\* family, and in the sessions of all gestures at once
Horizon == 17
ShortHorizon == 10
BriefHorizon == 5
\* the clock reading at construction: time.time() is far beyond any cooldown
StartTime == Cooldown + 1

\* ------------------------------------------------------------- frame inputs
\* A frame with a hand is described by the geometry the detectors read:
\*   n    number of landmarks delivered
\*   d48  distance thumb tip (4) - index tip (8)
\*   dj   distance thumb tip (4) - index joint jn (the other joints are far)
\*   jn   the index joint (5, 6 or 7) that is dj away from the thumb
\*   ds   horizontal distance index tip (8) - middle tip (12)
\*   dm   pixels by which the middle tip (12) lies below the index tip (8)
\*   v    vertical offset of the index tip (8) from landmark 9
\*   dp   distance pinky tip (20) - wrist (0)
FarAway == 200
RestFrame == [n |-> FullHand, d48 |-> 40, dj |-> FarAway, jn |-> 6,
              ds |-> 40, dm |-> 0, v |-> 0, dp |-> 70]

\* thumb against index tip: the hold latch, and the left click on landmark 8
PinchFrames ==
    {[RestFrame EXCEPT !.d48 = d] : d \in {10, 15, 30, 32, 40}}
\* thumb against an index joint: the left click on landmarks 5, 6, 7
JointFrames ==
    {[RestFrame EXCEPT !.d48 = d, !.dj = e[1], !.jn = e[2]] :
        d \in {10, 40}, e \in {<<15, 5>>, <<15, 7>>, <<20, 5>>}}
\* sustained left-click contact, with and without the hold pinch
ContactFrames ==
    {[RestFrame EXCEPT !.d48 = d, !.dj = 15] : d \in {10, 32, 40}}
\* index against middle finger: the scroll gesture
ScrollFrames ==
    {[RestFrame EXCEPT !.ds = 10, !.v = w] : w \in {-20, -15, 0, 15, 20}}
      \cup {[RestFrame EXCEPT !.ds = d, !.v = w] : d \in {25, 40}, w \in {-20, 20}}
\* hands cut short of the landmarks a detector needs (fewer than 9, than 13)
ShortPinchFrames ==
    {[RestFrame EXCEPT !.n = 8, !.d48 = d, !.dj = 15, !.jn = 5] : d \in {10, 40}}
ShortScrollFrames ==
    {[RestFrame EXCEPT !.n = 12, !.ds = 10, !.v = w] : w \in {-20, 0}}
\* pinky against wrist: the right click, with and without pinch and contact
RightFrames ==
    {[RestFrame EXCEPT !.dp = p, !.d48 = e[1], !.dj = e[2]] :
        p \in {40, 50}, e \in {<<10, FarAway>>, <<40, 15>>}}
      \cup {RestFrame, [RestFrame EXCEPT !.n = 20, !.dp = 40]}
\* every gesture at once: pinch or hover of the hold pair, thumb on joint 6,
\* scroll fingers together or apart, pinky on the wrist or away
AllFrames ==
    {[RestFrame EXCEPT !.d48 = d, !.dj = 15, !.ds = e[1], !.v = e[2], !.dp = p] :
        d \in {10, 32}, e \in {<<10, -20>>, <<40, 0>>}, p \in {40, 70}}
      \cup {RestFrame, [RestFrame EXCEPT !.n = 8]}
\* scroll fingers together at the edges of the dead-band, the middle tip level
\* with the index tip or one pixel below it (a midpoint on a half pixel)
DirectionFrames ==
    {[RestFrame EXCEPT !.ds = 10, !.dm = m, !.v = w] :
        m \in {0, 1}, w \in {-16, -15, 15, 16}}
      \cup {RestFrame}
\* the frames of the whole-application specification
AppFrames ==
    {RestFrame, [RestFrame EXCEPT !.d48 = 10],
     [RestFrame EXCEPT !.ds = 10, !.v = -20]}

\* the landmark list process_frame extracts (gesture.py:96-100): pixel points
IndexTip == <<300, 300>>
Landmarks(f) ==
    [i \in 0..(f.n - 1) |->
        CASE i = 8 -> IndexTip
          [] i = 4 -> <<IndexTip[1] + f.d48, IndexTip[2]>>
          [] i \in {5, 6, 7} ->
                <<IndexTip[1] + f.d48,
                  IndexTip[2] + (IF i = f.jn THEN f.dj ELSE FarAway)>>
          [] i = 12 -> <<IndexTip[1] - f.ds, IndexTip[2] + f.dm>>
          [] i = 9 -> <<IndexTip[1], IndexTip[2] - f.v>>
          [] i = 0 -> <<0, 0>>
          [] i = 20 -> <<f.dp, 0>>
          [] OTHER -> <<600, 600>>]
Len_(lm) == Cardinality(DOMAIN lm)

\* np.linalg.norm(np.array(p) - np.array(q)) < r, for integer points and radius
NormLess(p, q, r) ==
    (p[1] - q[1]) * (p[1] - q[1]) + (p[2] - q[2]) * (p[2] - q[2]) < r * r

\* ----------------------------------------------------------------- the state
VARIABLES
    hand_tracker,     \* the fields of HandTracker
    tracking_active,  \* MainWindow.tracking_active
    capture,          \* MainWindow.capture: "none", "open" or "unopened"
    timer_active,     \* MainWindow.timer is running
    startEnabled,     \* startButton.isEnabled()
    stopEnabled,      \* stopButton.isEnabled()
    closed,           \* closeEvent has run
    now,              \* time.time() at the last frame
    button_down,      \* the host's left mouse button, as pyautogui left it
    calls,            \* the pyautogui calls of the last operation, in order
    op,               \* the last operation
    frame,            \* the hand geometry of the last frame with a hand
    was,              \* what the tracker was before the last operation
    click_times,      \* the clock readings of all pyautogui.click() calls
    run,              \* the scroll actuations of the current Running period
    balance,          \* mouseDown() calls so far minus mouseUp() calls so far
    scen6,            \* progress through the click scenario (15px, 15px)
    scen7             \* progress through the hold scenario (10px, 32px, 40px)

window == <<tracking_active, capture, timer_active, startEnabled, stopEnabled,
            closed>>
observers == <<click_times, balance, run, scen6, scen7>>
vars == <<hand_tracker, window, now, button_down, calls, op, frame, was,
          observers>>

Call(name, amount) == [fn |-> name, arg |-> amount]
Count(cs, name) == Cardinality({i \in 1..Len(cs) : cs[i].fn = name})

\* a detector works on the tracker fields and appends its pyautogui calls
Ctx(self, cs) == [self |-> self, calls |-> cs]

\* ---------------------------------------------------------------- gesture.py
HandTrackerInit ==
    [last_click_time |-> 0, last_right_click_time |-> 0,
     is_scrolling |-> FALSE, scroll_direction |-> "none",
     last_scroll_time |-> 0, is_holding |-> FALSE, hold_start_time |-> 0,
     hands_closed |-> FALSE]

_perform_scroll(c) ==
    [c EXCEPT !.calls = Append(@, Call("scroll",
        IF c.self.scroll_direction = "up" THEN ScrollSpeed ELSE -ScrollSpeed))]

\* faulty variant: the midpoint of the two finger tips is rounded up
ScrollDirection_RoundsUp(lm) ==
    LET mid_y == (lm[8][2] + lm[12][2] + 1) \div 2
        vertical_diff == mid_y - lm[9][2]
    IN  IF vertical_diff < -DeadBand THEN "up"
        ELSE IF vertical_diff > DeadBand THEN "down" ELSE "none"

ScrollDirection(lm) ==
    LET mid_y == (lm[8][2] + lm[12][2]) \div 2
        vertical_diff == mid_y - lm[9][2]
    IN  IF vertical_diff < -DeadBand THEN "up"
        ELSE IF vertical_diff > DeadBand THEN "down" ELSE "none"

\* faulty variant: a running scroll actuates on every frame, whatever the interval
detect_scroll_NoInterval(c, lm, current_time) ==
    IF Len_(lm) < 13
    THEN [c EXCEPT !.self.is_scrolling = FALSE]
    ELSE LET direction == ScrollDirection(lm) IN
         IF /\ NormLess(lm[8], lm[12], ScrollHoverRadius)
            /\ NormLess(lm[8], lm[12], ScrollRadius) /\ direction # "none"
         THEN LET c1 == [c EXCEPT !.self.is_scrolling = TRUE,
                                  !.self.scroll_direction = direction]
                  c2 == _perform_scroll(c1)
              IN  [c2 EXCEPT !.self.last_scroll_time = current_time]
         ELSE [c EXCEPT !.self.is_scrolling = FALSE]

\* faulty variant: a running scroll keeps the direction it started with
detect_scroll_StaleDirection(c, lm, current_time) ==
    IF Len_(lm) < 13
    THEN [c EXCEPT !.self.is_scrolling = FALSE]
    ELSE LET direction == ScrollDirection(lm) IN
         IF /\ NormLess(lm[8], lm[12], ScrollHoverRadius)
            /\ NormLess(lm[8], lm[12], ScrollRadius) /\ direction # "none"
         THEN IF ~c.self.is_scrolling
              THEN LET c1 == [c EXCEPT !.self.is_scrolling = TRUE,
                                       !.self.scroll_direction = direction]
                       c2 == _perform_scroll(c1)
                   IN  [c2 EXCEPT !.self.last_scroll_time = current_time]
              ELSE IF current_time - c.self.last_scroll_time > ScrollInterval
              THEN [_perform_scroll(c) EXCEPT
                        !.self.last_scroll_time = current_time]
              ELSE c
         ELSE [c EXCEPT !.self.is_scrolling = FALSE]

\* faulty variant: a running scroll actuates once the interval is reached
detect_scroll_AtInterval(c, lm, current_time) ==
    IF Len_(lm) < 13
    THEN [c EXCEPT !.self.is_scrolling = FALSE]
    ELSE LET direction == ScrollDirection(lm) IN
         IF NormLess(lm[8], lm[12], ScrollHoverRadius)
         THEN IF NormLess(lm[8], lm[12], ScrollRadius) /\ direction # "none"
              THEN IF ~c.self.is_scrolling
                   THEN LET c1 == [c EXCEPT !.self.is_scrolling = TRUE,
                                            !.self.scroll_direction = direction]
                            c2 == _perform_scroll(c1)
                        IN  [c2 EXCEPT !.self.last_scroll_time = current_time]
                   ELSE IF current_time - c.self.last_scroll_time >= ScrollInterval
                   THEN LET c1 == [c EXCEPT !.self.scroll_direction = direction]
                            c2 == _perform_scroll(c1)
                        IN  [c2 EXCEPT !.self.last_scroll_time = current_time]
                   ELSE c
              ELSE [c EXCEPT !.self.is_scrolling = FALSE]
         ELSE [c EXCEPT !.self.is_scrolling = FALSE]

\* faulty variant: a running scroll survives a frame in the Hover zone
detect_scroll_HoverKeeps(c, lm, current_time) ==
    IF Len_(lm) < 13
    THEN [c EXCEPT !.self.is_scrolling = FALSE]
    ELSE LET direction == ScrollDirection(lm) IN
         IF NormLess(lm[8], lm[12], ScrollHoverRadius)
         THEN IF NormLess(lm[8], lm[12], ScrollRadius) /\ direction # "none"
              THEN IF ~c.self.is_scrolling
                   THEN LET c1 == [c EXCEPT !.self.is_scrolling = TRUE,
                                            !.self.scroll_direction = direction]
                            c2 == _perform_scroll(c1)
                        IN  [c2 EXCEPT !.self.last_scroll_time = current_time]
                   ELSE IF current_time - c.self.last_scroll_time > ScrollInterval
                   THEN LET c1 == [c EXCEPT !.self.scroll_direction = direction]
                            c2 == _perform_scroll(c1)
                        IN  [c2 EXCEPT !.self.last_scroll_time = current_time]
                   ELSE c
              ELSE c
         ELSE [c EXCEPT !.self.is_scrolling = FALSE]

\* faulty variant: a scroll that starts waits for the interval like a running one
detect_scroll_RestartGated(c, lm, current_time) ==
    IF Len_(lm) < 13
    THEN [c EXCEPT !.self.is_scrolling = FALSE]
    ELSE LET direction == ScrollDirection(lm) IN
         IF NormLess(lm[8], lm[12], ScrollHoverRadius)
         THEN IF NormLess(lm[8], lm[12], ScrollRadius) /\ direction # "none"
              THEN IF current_time - c.self.last_scroll_time > ScrollInterval
                   THEN LET c1 == [c EXCEPT !.self.is_scrolling = TRUE,
                                            !.self.scroll_direction = direction]
                            c2 == _perform_scroll(c1)
                        IN  [c2 EXCEPT !.self.last_scroll_time = current_time]
                   ELSE c
              ELSE [c EXCEPT !.self.is_scrolling = FALSE]
         ELSE [c EXCEPT !.self.is_scrolling = FALSE]

detect_scroll(c, lm, current_time) ==
    IF Len_(lm) < 13
    THEN [c EXCEPT !.self.is_scrolling = FALSE]
    ELSE LET direction == ScrollDirection(lm) IN
         IF NormLess(lm[8], lm[12], ScrollHoverRadius)
         THEN IF NormLess(lm[8], lm[12], ScrollRadius) /\ direction # "none"
              THEN IF ~c.self.is_scrolling
                   THEN LET c1 == [c EXCEPT !.self.is_scrolling = TRUE,
                                            !.self.scroll_direction = direction]
                            c2 == _perform_scroll(c1)
                        IN  [c2 EXCEPT !.self.last_scroll_time = current_time]
                   ELSE IF current_time - c.self.last_scroll_time > ScrollInterval
                   THEN LET c1 == [c EXCEPT !.self.scroll_direction = direction]
                            c2 == _perform_scroll(c1)
                        IN  [c2 EXCEPT !.self.last_scroll_time = current_time]
                   ELSE c
              ELSE [c EXCEPT !.self.is_scrolling = FALSE]
         ELSE [c EXCEPT !.self.is_scrolling = FALSE]

\* faulty variant: the release paths call mouseUp without looking at is_holding
detect_click_and_hold_AlwaysRelease(c, lm, current_time) ==
    IF Len_(lm) < 9
    THEN c
    ELSE IF NormLess(lm[4], lm[8], HoldClickRadius)
         THEN IF ~c.self.is_holding
              THEN [c EXCEPT !.self.hold_start_time = current_time,
                             !.self.is_holding = TRUE,
                             !.calls = Append(@, Call("mouseDown", 0))]
              ELSE c
         ELSE [c EXCEPT !.calls = Append(@, Call("mouseUp", 0)),
                        !.self.is_holding = FALSE]

\* faulty variant: the latch has hysteresis, the hover zone keeps a hold
detect_click_and_hold_Hysteresis(c, lm, current_time) ==
    IF Len_(lm) < 9
    THEN c
    ELSE IF NormLess(lm[4], lm[8], HoldHoverRadius)
         THEN IF NormLess(lm[4], lm[8], HoldClickRadius) /\ ~c.self.is_holding
              THEN [c EXCEPT !.self.hold_start_time = current_time,
                             !.self.is_holding = TRUE,
                             !.calls = Append(@, Call("mouseDown", 0))]
              ELSE c
         ELSE IF c.self.is_holding
              THEN [c EXCEPT !.calls = Append(@, Call("mouseUp", 0)),
                             !.self.is_holding = FALSE]
              ELSE c

\* faulty variant: a hold is released only after hold_cooldown has passed
detect_click_and_hold_MinimumHold(c, lm, current_time) ==
    IF Len_(lm) < 9
    THEN c
    ELSE IF NormLess(lm[4], lm[8], HoldClickRadius)
         THEN IF ~c.self.is_holding
              THEN [c EXCEPT !.self.hold_start_time = current_time,
                             !.self.is_holding = TRUE,
                             !.calls = Append(@, Call("mouseDown", 0))]
              ELSE c
         ELSE IF /\ c.self.is_holding
                 /\ current_time - c.self.hold_start_time > HoldCooldown
              THEN [c EXCEPT !.calls = Append(@, Call("mouseUp", 0)),
                             !.self.is_holding = FALSE]
              ELSE c

\* faulty variant: the Active zone presses the button on every frame
detect_click_and_hold_Repress(c, lm, current_time) ==
    IF Len_(lm) < 9
    THEN c
    ELSE IF NormLess(lm[4], lm[8], HoldClickRadius)
         THEN [c EXCEPT !.self.hold_start_time = current_time,
                        !.self.is_holding = TRUE,
                        !.calls = Append(@, Call("mouseDown", 0))]
         ELSE IF c.self.is_holding
              THEN [c EXCEPT !.calls = Append(@, Call("mouseUp", 0)),
                             !.self.is_holding = FALSE]
              ELSE c

\* faulty variant: a pinch tight enough for a click does not engage the latch
detect_click_and_hold_LooseOnly(c, lm, current_time) ==
    IF Len_(lm) < 9
    THEN c
    ELSE IF NormLess(lm[4], lm[8], ClickRadius)
         THEN c
         ELSE IF NormLess(lm[4], lm[8], HoldClickRadius)
         THEN IF ~c.self.is_holding
              THEN [c EXCEPT !.self.hold_start_time = current_time,
                             !.self.is_holding = TRUE,
                             !.calls = Append(@, Call("mouseDown", 0))]
              ELSE c
         ELSE IF c.self.is_holding
              THEN [c EXCEPT !.calls = Append(@, Call("mouseUp", 0)),
                             !.self.is_holding = FALSE]
              ELSE c

detect_click_and_hold(c, lm, current_time) ==
    IF Len_(lm) < 9
    THEN c
    ELSE IF NormLess(lm[4], lm[8], HoldHoverRadius)
         THEN IF NormLess(lm[4], lm[8], HoldClickRadius)
              THEN IF ~c.self.is_holding
                   THEN [c EXCEPT !.self.hold_start_time = current_time,
                                  !.self.is_holding = TRUE,
                                  !.calls = Append(@, Call("mouseDown", 0))]
                   ELSE c
              ELSE IF c.self.is_holding
                   THEN [c EXCEPT !.calls = Append(@, Call("mouseUp", 0)),
                                  !.self.is_holding = FALSE]
                   ELSE c
         ELSE IF c.self.is_holding
              THEN [c EXCEPT !.calls = Append(@, Call("mouseUp", 0)),
                             !.self.is_holding = FALSE]
              ELSE c

\* faulty variant: the contact is reported whatever the time since the last click
ThumbIndexContact_NoCooldown(self, lm, current_time) ==
    IF Len_(lm) < 9 \/ self.is_holding
    THEN FALSE
    ELSE \E idx \in {5, 6, 7, 8} :
            /\ NormLess(lm[4], lm[idx], HoverRadius)
            /\ NormLess(lm[4], lm[idx], ClickRadius)

\* the return value of detect_thumb_index_contact
\* faulty variant: only the index tip (landmark 8) counts as contact
ThumbIndexContact_TipOnly(self, lm, current_time) ==
    IF \/ Len_(lm) < 9
       \/ current_time - self.last_click_time < Cooldown
       \/ self.is_holding
    THEN FALSE
    ELSE /\ NormLess(lm[4], lm[8], HoverRadius)
         /\ NormLess(lm[4], lm[8], ClickRadius)

ThumbIndexContact(self, lm, current_time) ==
    IF \/ Len_(lm) < 9
       \/ current_time - self.last_click_time < Cooldown
       \/ self.is_holding
    THEN FALSE
    ELSE \E idx \in {5, 6, 7, 8} :
            /\ NormLess(lm[4], lm[idx], HoverRadius)
            /\ NormLess(lm[4], lm[idx], ClickRadius)

detect_thumb_index_contact(c, lm, current_time) ==
    IF ThumbIndexContact(c.self, lm, current_time)
    THEN [c EXCEPT !.self.last_click_time = current_time]
    ELSE c

\* faulty variant: a held latch suppresses the right click as it does the left
PinkyWristContact_NotWhileHolding(self, lm, current_time) ==
    IF \/ Len_(lm) < 21
       \/ current_time - self.last_right_click_time < Cooldown
       \/ self.is_holding
    THEN FALSE
    ELSE /\ NormLess(lm[20], lm[0], RightHoverRadius)
         /\ NormLess(lm[20], lm[0], RightClickRadius)

\* the return value of detect_pinky_wrist_contact
PinkyWristContact(self, lm, current_time) ==
    IF \/ Len_(lm) < 21
       \/ current_time - self.last_right_click_time < Cooldown
    THEN FALSE
    ELSE /\ NormLess(lm[20], lm[0], RightHoverRadius)
         /\ NormLess(lm[20], lm[0], RightClickRadius)

detect_pinky_wrist_contact(c, lm, current_time) ==
    IF PinkyWristContact(c.self, lm, current_time)
    THEN [c EXCEPT !.self.last_right_click_time = current_time]
    ELSE c

\* process_frame, line 117: if not self.is_holding and detect_thumb_index_contact
LeftClick(c, lm, current_time) ==
    IF ~c.self.is_holding /\ ThumbIndexContact(c.self, lm, current_time)
    THEN LET c1 == detect_thumb_index_contact(c, lm, current_time)
         IN  [c1 EXCEPT !.calls = Append(@, Call("click", 0))]
    ELSE c

\* process_frame, line 121
RightClick(c, lm, current_time) ==
    IF PinkyWristContact(c.self, lm, current_time)
    THEN LET c1 == detect_pinky_wrist_contact(c, lm, current_time)
         IN  [c1 EXCEPT !.calls = Append(@, Call("rightClick", 0))]
    ELSE c

\* faulty variant: the cursor stands still while the latch is Held
MoveCursor_NotWhileHolding(c, lm) ==
    IF Len_(lm) > 8 /\ ~c.self.is_holding
    THEN [c EXCEPT !.calls = Append(@, Call("moveTo", 0))]
    ELSE c

MoveCursor(c, lm) ==
    IF Len_(lm) > 8
    THEN [c EXCEPT !.calls = Append(@, Call("moveTo", 0))]
    ELSE c

\* faulty variant: the hold latch is evaluated before the scroll
ProcessHand_HoldBeforeScroll(c, lm, current_time) ==
    LET c1 == MoveCursor(c, lm)
        c2 == detect_click_and_hold(c1, lm, current_time)
        c3 == detect_scroll(c2, lm, current_time)
        c4 == LeftClick(c3, lm, current_time)
    IN  RightClick(c4, lm, current_time)

\* faulty variant: the left click is evaluated before the hold latch
ProcessHand_ClickBeforeHold(c, lm, current_time) ==
    LET c1 == MoveCursor(c, lm)
        c2 == detect_scroll(c1, lm, current_time)
        c3 == IF ThumbIndexContact(c2.self, lm, current_time)
              THEN [detect_thumb_index_contact(c2, lm, current_time) EXCEPT
                        !.calls = Append(@, Call("click", 0))]
              ELSE c2
        c4 == detect_click_and_hold(c3, lm, current_time)
    IN  RightClick(c4, lm, current_time)

\* process_frame for one detected hand (the body of the for loop)
ProcessHand(c, lm, current_time) ==
    LET c1 == MoveCursor(c, lm)
        c2 == detect_scroll(c1, lm, current_time)
        c3 == detect_click_and_hold(c2, lm, current_time)
        c4 == LeftClick(c3, lm, current_time)
    IN  RightClick(c4, lm, current_time)

\* faulty variant: the no-hand path calls mouseUp and leaves is_holding set
ProcessNoHand_KeepsLatch(c) ==
    IF c.self.is_holding
    THEN [c EXCEPT !.calls = Append(@, Call("mouseUp", 0))]
    ELSE c

\* process_frame when results.multi_hand_landmarks is empty
ProcessNoHand(c) ==
    IF c.self.is_holding
    THEN [c EXCEPT !.calls = Append(@, Call("mouseUp", 0)),
                   !.self.is_holding = FALSE]
    ELSE c

\* HandTracker.release
release(self) == [self EXCEPT !.hands_closed = TRUE]

\* the host's mouse button after a sequence of pyautogui calls
RECURSIVE ButtonAfter(_, _)
ButtonAfter(down, cs) ==
    IF cs = <<>> THEN down
    ELSE ButtonAfter(IF Head(cs).fn = "mouseDown" THEN TRUE
                     ELSE IF Head(cs).fn = "mouseUp" THEN FALSE
                     ELSE down, Tail(cs))

\* ------------------------------------------------------------------- actions
NoRun == [start |-> 0, count |-> 0, fixed |-> TRUE]

WasOf(self, current_time) ==
    [is_holding |-> self.is_holding,
     is_scrolling |-> self.is_scrolling,
     scroll_direction |-> self.scroll_direction,
     click_ready |-> current_time - self.last_click_time >= Cooldown,
     right_ready |-> current_time - self.last_right_click_time >= Cooldown,
     last_click_time |-> self.last_click_time,
     last_right_click_time |-> self.last_right_click_time,
     last_scroll_time |-> self.last_scroll_time,
     hold_start_time |-> self.hold_start_time]

Init ==
    /\ hand_tracker = HandTrackerInit
    /\ tracking_active = FALSE
    /\ capture = "none"
    /\ timer_active = FALSE
    /\ startEnabled = TRUE
    /\ stopEnabled = FALSE
    /\ closed = FALSE
    /\ now = StartTime
    /\ button_down = FALSE
    /\ calls = <<>>
    /\ op = "init"
    /\ frame = RestFrame
    /\ was = WasOf(HandTrackerInit, StartTime)
    /\ click_times = <<>>
    /\ balance = 0
    /\ run = NoRun
    /\ scen6 = 0
    /\ scen7 = 0

\* the timer fires and update_frame gets past its guard (main.py:294)
TimerTick(dt, h) ==
    /\ ~closed
    /\ timer_active
    /\ capture = "open"
    /\ now + dt <= StartTime + h
    /\ now' = now + dt

\* the scroll actuations of the Running period, after a frame with a hand
RunAfter(c) ==
    LET k == Count(c.calls, "scroll") IN
    IF ~c.self.is_scrolling THEN NoRun
    ELSE IF ~hand_tracker.is_scrolling
    THEN [start |-> now', count |-> k, fixed |-> TRUE]
    ELSE IF run.count = 0 THEN NoRun
    ELSE [run EXCEPT !.count = @ + k,
                     !.fixed = @ /\ c.self.scroll_direction
                                        = hand_tracker.scroll_direction]

\* what every operation records: the tracker, its calls and their effect
Tracked(c, name) ==
    /\ hand_tracker' = c.self
    /\ calls' = c.calls
    /\ button_down' = ButtonAfter(button_down, c.calls)
    /\ op' = name
    /\ was' = WasOf(hand_tracker, now')
    /\ click_times' = IF Count(c.calls, "click") > 0
                      THEN Append(click_times, now') ELSE click_times
    /\ balance' = balance + Count(c.calls, "mouseDown")
                          - Count(c.calls, "mouseUp")

\* update_frame: a frame is read and a hand is found in it
FrameWithHand(f, dt, h) ==
    /\ TimerTick(dt, h)
    /\ LET c == ProcessHand(Ctx(hand_tracker, <<>>), Landmarks(f), now + dt)
       IN  /\ Tracked(c, "hand")
           /\ run' = RunAfter(c)
    /\ frame' = f
    /\ scen6' = IF f.n = FullHand /\ f.d48 = 15
                THEN IF now + dt - hand_tracker.last_click_time >= Cooldown
                     THEN 1
                     ELSE IF scen6 = 1 /\ dt = 1 THEN 2 ELSE 0
                ELSE 0
    /\ scen7' = IF f.n = FullHand /\ f.d48 = 10 /\ ~hand_tracker.is_holding
                THEN 1
                ELSE IF f.n = FullHand /\ f.d48 = 32 /\ scen7 = 1 THEN 2
                ELSE IF f.n = FullHand /\ f.d48 = 40 /\ scen7 = 2 THEN 3
                ELSE 0
    /\ UNCHANGED window

NoFrameObserved ==
    /\ run' = NoRun
    /\ scen6' = 0
    /\ scen7' = 0
    /\ UNCHANGED frame

\* update_frame: a frame is read and no hand is found in it
FrameWithoutHand(dt, h) ==
    /\ TimerTick(dt, h)
    /\ Tracked(ProcessNoHand(Ctx(hand_tracker, <<>>)), "nohand")
    /\ NoFrameObserved
    /\ UNCHANGED window

\* update_frame: self.hands.process raises (gesture.py:82-86)
FrameFailure(dt, h) ==
    /\ TimerTick(dt, h)
    /\ Tracked(Ctx(hand_tracker, <<>>), "failure")
    /\ NoFrameObserved
    /\ UNCHANGED window

\* update_frame: capture.read() returns ret = False, process_frame is not called
FrameNotRead(dt, h) ==
    /\ TimerTick(dt, h)
    /\ Tracked(Ctx(hand_tracker, <<>>), "noread")
    /\ NoFrameObserved
    /\ UNCHANGED window

\* an operation of the window: no frame is processed, the clock is not read
WindowOp(self, name) ==
    /\ now' = now
    /\ Tracked(Ctx(self, <<>>), name)
    /\ UNCHANGED <<frame, run, scen6, scen7>>

\* faulty variant: the timer and the buttons are switched before the camera
\* is known to be open
start_tracking_BeforeOpen(opened) ==
    IF ~tracking_active
    THEN /\ capture' = IF opened THEN "open" ELSE "unopened"
         /\ tracking_active' = opened
         /\ timer_active' = TRUE
         /\ startEnabled' = FALSE
         /\ stopEnabled' = TRUE
    ELSE UNCHANGED <<capture, tracking_active, timer_active, startEnabled,
                     stopEnabled>>

start_tracking(opened) ==
    IF ~tracking_active
    THEN IF ~opened
         THEN /\ capture' = "unopened"
              /\ UNCHANGED <<tracking_active, timer_active, startEnabled,
                             stopEnabled>>
         ELSE /\ capture' = "open"
              /\ tracking_active' = TRUE
              /\ timer_active' = TRUE
              /\ startEnabled' = FALSE
              /\ stopEnabled' = TRUE
    ELSE UNCHANGED <<capture, tracking_active, timer_active, startEnabled,
                     stopEnabled>>

stop_tracking ==
    IF tracking_active
    THEN /\ timer_active' = FALSE
         /\ tracking_active' = FALSE
         /\ capture' = "none"
         /\ startEnabled' = TRUE
         /\ stopEnabled' = FALSE
    ELSE UNCHANGED <<capture, tracking_active, timer_active, startEnabled,
                     stopEnabled>>

StartTracking(opened) ==
    /\ ~closed
    /\ start_tracking(opened)
    /\ WindowOp(hand_tracker, "start")
    /\ UNCHANGED closed

StopTracking ==
    /\ ~closed
    /\ stop_tracking
    /\ WindowOp(hand_tracker, "stop")
    /\ UNCHANGED closed

\* closeEvent: stop_tracking(), hand_tracker.release(), tray.hide(), accept
closeEvent ==
    /\ ~closed
    /\ stop_tracking
    /\ WindowOp(release(hand_tracker), "close")
    /\ closed' = TRUE

\* process_frame on the frames of a running session: hand geometries F,
\* gaps G between frames, and the clock within h ticks of the start
Frame(F, G, h) ==
    \/ \E f \in F, dt \in G : FrameWithHand(f, dt, h)
    \/ \E dt \in G : FrameWithoutHand(dt, h)
    \/ \E dt \in G : FrameFailure(dt, h)

\* the whole application: the window's buttons, its timer and its closing
Next ==
    \/ Frame(AppFrames, {1, Cooldown}, ShortHorizon)
    \/ \E dt \in {1, Cooldown} : FrameNotRead(dt, ShortHorizon)
    \/ \E opened \in BOOLEAN : StartTracking(opened)
    \/ StopTracking
    \/ closeEvent

Spec == Init /\ [][Next]_vars

\* the state after construction and one successful start_tracking
Tracking ==
    /\ hand_tracker = HandTrackerInit
    /\ tracking_active = TRUE
    /\ capture = "open"
    /\ timer_active = TRUE
    /\ startEnabled = FALSE
    /\ stopEnabled = TRUE
    /\ closed = FALSE
    /\ now = StartTime
    /\ button_down = FALSE
    /\ calls = <<>>
    /\ op = "start"
    /\ frame = RestFrame
    /\ was = WasOf(HandTrackerInit, StartTime)
    /\ click_times = <<>>
    /\ balance = 0
    /\ run = NoRun
    /\ scen6 = 0
    /\ scen7 = 0

\* a tracking session fed with pinches of thumb and index finger
NextPinch == Frame(PinchFrames \cup JointFrames \cup ShortPinchFrames,
                   {1, Cooldown - 1, Cooldown},
                   ShortHorizon)
SpecPinch == Tracking /\ [][NextPinch]_vars

\* a tracking session with the thumb resting on an index joint
NextContact == Frame(ContactFrames, {1, Cooldown - 1, Cooldown}, Horizon)
SpecContact == Tracking /\ [][NextContact]_vars

\* a tracking session fed with scroll gestures
NextScroll == Frame(ScrollFrames \cup ShortScrollFrames,
                    {1, ScrollInterval, ScrollInterval + 1, Cooldown},
                    ShortHorizon)
SpecScroll == Tracking /\ [][NextScroll]_vars

\* the right click beside the hold latch and the left click
NextRight == Frame(RightFrames, {1, Cooldown}, ShortHorizon)
SpecRight == Tracking /\ [][NextRight]_vars

\* all the gestures of one hand in the same frames
NextAll == Frame(AllFrames, {1, ScrollInterval + 1}, BriefHorizon)
SpecAll == Tracking /\ [][NextAll]_vars

\* scroll gestures at the edges of the direction dead-band
NextDirection == Frame(DirectionFrames, {1, ScrollInterval + 1}, ShortHorizon)
SpecDirection == Tracking /\ [][NextDirection]_vars

\* ------------------------------------------------------------------- claims
MouseUp == Call("mouseUp", 0)
Clicks == Count(calls, "click")
MouseDowns == Count(calls, "mouseDown")
MouseUps == Count(calls, "mouseUp")
ScrollCalls == {i \in 1..Len(calls) : calls[i].fn = "scroll"}

\* C1: in a frame that leaves the hold latch Held (is_holding after the hold
\* evaluation, the frame of the Idle -> Held transition included), click()
\* is not invoked.
C1_MutualExclusion ==
    (op = "hand" /\ hand_tracker.is_holding) => Clicks = 0

\* the latch engages in a frame whose pinch is also a left-click contact,
\* with the click cooldown elapsed
C1_EngagedOnClickContact ==
    /\ op = "hand" /\ hand_tracker.is_holding /\ ~was.is_holding
    /\ was.click_ready /\ frame.d48 < ClickRadius

\* C2: a no-hand frame that arrives while Held invokes mouseUp() exactly once
\* and nothing else (no mouseDown() before it) and leaves the latch Idle; a
\* no-hand frame that arrives while Idle invokes nothing.
C2_HandLossReleasesHold ==
    op = "nohand" =>
        /\ ~hand_tracker.is_holding
        /\ calls = IF was.is_holding THEN <<MouseUp>> ELSE <<>>

C2_HandLostWhileHeld == op = "nohand" /\ was.is_holding

\* C3: a no-hand frame that arrives while the scroll state is Running leaves
\* the scroll state Stopped (is_scrolling = false).
C3_HandLossStopsScroll ==
    (op = "nohand" /\ was.is_scrolling) => ~hand_tracker.is_scrolling

\* C4: under sustained left-click contact, every time window [a, a + T) holds
\* at most ceil(T / cooldown) click() invocations.
C4_CooldownWindow ==
    \A a \in StartTime..(StartTime + Horizon), T \in 1..(Horizon + 1) :
        Cardinality({i \in DOMAIN click_times :
                        a <= click_times[i] /\ click_times[i] < a + T})
            <= (T + Cooldown - 1) \div Cooldown

\* three clicks, each fired as soon as the cooldown allowed
C4_ThreeClicks ==
    /\ Len(click_times) >= 3
    /\ click_times[3] - click_times[1] = 2 * Cooldown

\* C5: with the latch Idle, every release path (the hold pair in the Hover
\* zone or Far, or no hand) invokes no mouseUp() and leaves the latch Idle.
C5_IdleReleaseIsSilent ==
    (/\ ~was.is_holding
     /\ \/ op = "nohand"
        \/ op = "hand" /\ frame.n >= 9 /\ frame.d48 >= HoldClickRadius)
        => MouseUps = 0 /\ ~hand_tracker.is_holding /\ ~button_down

\* the hold pair is in the Hover zone while the latch is Idle
C5_IdleInHoverZone ==
    /\ op = "hand" /\ ~was.is_holding
    /\ frame.d48 >= HoldClickRadius /\ frame.d48 < HoldHoverRadius

\* C6: a frame with thumb-index distance 15px and no click within the last
\* cooldown invokes click() exactly once; a second such frame one tick later
\* invokes no click().
C6_ClickScenario ==
    /\ scen6 = 1 => Clicks = 1
    /\ scen6 = 2 => Clicks = 0

\* C7 as claimed: from Idle, the frames 10px, 32px, 40px give mouseDown() once
\* at 10px, no mouseDown()/mouseUp() at 32px and mouseUp() once at 40px.
C7_HoldScenario ==
    /\ scen7 = 1 => MouseDowns = 1 /\ MouseUps = 0
    /\ scen7 = 2 => MouseDowns = 0 /\ MouseUps = 0
    /\ scen7 = 3 => MouseDowns = 0 /\ MouseUps = 1

\* C7 as amended: from Idle, the frames 10px, 32px, 40px give mouseDown() once
\* at 10px, mouseUp() once at 32px (the Hover zone releases the latch) and no
\* mouseDown()/mouseUp() at 40px.
C7_HoldScenarioAmended ==
    /\ scen7 = 1 => MouseDowns = 1 /\ MouseUps = 0 /\ hand_tracker.is_holding
    /\ scen7 = 2 => MouseDowns = 0 /\ MouseUps = 1 /\ ~hand_tracker.is_holding
    /\ scen7 = 3 => MouseDowns = 0 /\ MouseUps = 0 /\ ~hand_tracker.is_holding

C7_ScenarioCompleted == scen7 = 3

\* C8 as claimed: while Running with a fixed direction, over the duration T
\* since the first actuation the number of scroll actuations is
\* floor(T / scroll_interval) plus or minus 1, whatever the frame rate.
C8_ScrollCadence ==
    (run.count > 0 /\ run.fixed) =>
        LET ideal == (now - run.start) \div ScrollInterval
        IN  run.count >= ideal - 1 /\ run.count <= ideal + 1

\* C8 as amended: while Running with a fixed direction, over the duration T
\* since the first actuation the number of scroll actuations is at most
\* floor(T / scroll_interval) + 1 (and at least the one that started it).
C8_ScrollCadenceAmended ==
    (run.count > 0 /\ run.fixed) =>
        run.count <= (now - run.start) \div ScrollInterval + 1

\* a Running period with three actuations in one direction
C8_ThreeActuations == run.count >= 3 /\ run.fixed

\* C9: in a frame with a hand, every scroll actuation uses the direction
\* computed from that frame, which becomes the commanded direction; a frame
\* that is Running, in the Active zone and has a direction stays Running;
\* and without an actuation the commanded direction of a Running scroll does
\* not change (the switch happens at the next actuation).
C9_DirectionSwitch ==
    op = "hand" =>
        LET direction == IF frame.v < -DeadBand THEN "up"
                         ELSE IF frame.v > DeadBand THEN "down" ELSE "none"
        IN  /\ \A i \in ScrollCalls :
                /\ calls[i].arg = IF direction = "up" THEN ScrollSpeed
                                  ELSE -ScrollSpeed
                /\ direction # "none"
                /\ hand_tracker.scroll_direction = direction
            /\ (/\ was.is_scrolling /\ frame.n >= 13
                /\ frame.ds < ScrollRadius /\ direction # "none")
                    => hand_tracker.is_scrolling
            /\ (was.is_scrolling /\ hand_tracker.is_scrolling
                /\ ScrollCalls = {})
                    => hand_tracker.scroll_direction = was.scroll_direction

\* a Running scroll commanded Up actuates Down in a frame whose offset flipped
C9_SwitchedToDown ==
    /\ op = "hand" /\ was.is_scrolling /\ was.scroll_direction = "up"
    /\ frame.v > DeadBand /\ hand_tracker.is_scrolling
    /\ \E i \in ScrollCalls : calls[i].arg = -ScrollSpeed

\* C10: after closeEvent (stop_tracking, then release) the mouse button is not
\* left down: if the latch was Held, mouseUp() was invoked and it is Idle.
C10_NoDanglingButton ==
    closed => /\ ~button_down
              /\ ~hand_tracker.is_holding
              /\ (op = "close" /\ was.is_holding) => MouseUps = 1

RightClicks == Count(calls, "rightClick")
Moves == Count(calls, "moveTo")

\* C11: a frame on which the landmark source fails is treated as a no-hand
\* frame: a Held latch is released (mouseUp() once, latch Idle) and the scroll
\* state is Stopped.
C11_FailureActsAsNoHand ==
    op = "failure" =>
        /\ ~hand_tracker.is_holding
        /\ ~hand_tracker.is_scrolling
        /\ calls = IF was.is_holding THEN <<MouseUp>> ELSE <<>>

\* C12: a frame with a hand of fewer landmarks than a detector needs forces
\* that detector's state to inactive: below 13 the scroll state is Stopped,
\* below 9 a Held latch is released (mouseUp() once, latch Idle) and no click
\* is fired, below 21 no right click is fired.
C12_ShortHandIsNoGesture ==
    op = "hand" =>
        /\ frame.n < 13 => ~hand_tracker.is_scrolling /\ ScrollCalls = {}
        /\ frame.n < 9 =>
            /\ ~hand_tracker.is_holding
            /\ MouseUps = (IF was.is_holding THEN 1 ELSE 0)
            /\ MouseDowns = 0 /\ Clicks = 0
        /\ frame.n < FullHand => RightClicks = 0

\* C13: a frame with a hand that finds the latch Held and the hold pair not
\* in the Active zone (Hover or Far) invokes mouseUp() exactly once and
\* leaves the latch Idle, however short the hold has been.
C13_ReleaseByProximity ==
    (/\ op = "hand" /\ was.is_holding
     /\ frame.n >= 9 /\ frame.d48 >= HoldClickRadius)
        => MouseUps = 1 /\ MouseDowns = 0 /\ ~hand_tracker.is_holding

\* a hold released in the Hover zone before hold_cooldown has passed
C13_ReleasedWithinHoldCooldown ==
    /\ op = "hand" /\ was.is_holding /\ ~hand_tracker.is_holding
    /\ frame.d48 < HoldHoverRadius
    /\ now - hand_tracker.hold_start_time < HoldCooldown

\* C14: mouseDown() is invoked exactly by the operations that take the latch
\* from Idle to Held and mouseUp() exactly by those that take it from Held to
\* Idle; the mouseDown() calls exceed the mouseUp() calls by one while Held
\* and equal them while Idle.
C14_LatchAlternation ==
    /\ balance = (IF hand_tracker.is_holding THEN 1 ELSE 0)
    /\ MouseDowns = (IF ~was.is_holding /\ hand_tracker.is_holding THEN 1 ELSE 0)
    /\ MouseUps = (IF was.is_holding /\ ~hand_tracker.is_holding THEN 1 ELSE 0)
    /\ button_down = hand_tracker.is_holding

\* a second hold begins after an earlier one was released
C14_SecondHold ==
    /\ ~was.is_holding /\ hand_tracker.is_holding /\ MouseDowns = 1
    /\ was.hold_start_time > 0

\* the direction the fingers of the frame give, were all landmarks present
FrameDirection == ScrollDirection(Landmarks([frame EXCEPT !.n = FullHand]))
ActiveScrollFrame ==
    /\ op = "hand" /\ frame.n >= 13
    /\ frame.ds < ScrollRadius /\ FrameDirection # "none"

\* C15: while Running, a frame with a hand in the scroll Active zone and with
\* a direction performs exactly one scroll actuation if the time since the
\* last actuation is at least scroll_interval (exactly equal included) and
\* none if it is smaller.
C15_ScrollIntervalGate ==
    (ActiveScrollFrame /\ was.is_scrolling) =>
        Cardinality(ScrollCalls) =
            (IF now - was.last_scroll_time >= ScrollInterval THEN 1 ELSE 0)

\* C15 as amended: while Running, a frame with a hand in the scroll Active
\* zone and with a direction performs exactly one scroll actuation if the
\* time since the last actuation is strictly greater than scroll_interval,
\* and none if it is equal or smaller.
C15_ScrollIntervalGateAmended ==
    (ActiveScrollFrame /\ was.is_scrolling) =>
        /\ Cardinality(ScrollCalls) =
            (IF now - was.last_scroll_time > ScrollInterval THEN 1 ELSE 0)
        /\ hand_tracker.last_scroll_time =
            (IF ScrollCalls # {} THEN now ELSE was.last_scroll_time)

\* a Running scroll meets an Active frame exactly scroll_interval after its
\* last actuation and does not actuate
C15_SilentAtInterval ==
    /\ ActiveScrollFrame /\ was.is_scrolling
    /\ now - was.last_scroll_time = ScrollInterval
    /\ ScrollCalls = {}

\* C16: a frame with a hand whose index-tip/middle-tip distance is not in the
\* Active zone, or whose direction is None, or that has fewer than 13
\* landmarks, ends with the scroll state Stopped and performs no scroll
\* actuation.
C16_ScrollStops ==
    (op = "hand" /\ ~ActiveScrollFrame) =>
        ~hand_tracker.is_scrolling /\ ScrollCalls = {}

\* a Running scroll is stopped by a hand of 12 landmarks whose fingers are
\* still in the Active zone with a direction
C16_StoppedByShortHand ==
    /\ op = "hand" /\ was.is_scrolling /\ frame.n < 13
    /\ frame.ds < ScrollRadius /\ FrameDirection # "none"
    /\ ~hand_tracker.is_scrolling

\* the thumb tip of the frame is in the Active zone of one of the index-finger
\* landmarks 5, 6, 7, 8 that the frame has
FrameContact ==
    LET lm == Landmarks(frame)
    IN  \E idx \in {5, 6, 7, 8} \cap DOMAIN lm :
            NormLess(lm[4], lm[idx], ClickRadius)

\* C17: in a frame with a hand click() is invoked, exactly once and stamping
\* last_click_time with the time of the frame, if and only if the latch is
\* not Held after the hold evaluation, at least cooldown has passed since
\* last_click_time and the thumb tip is in the Active zone of at least one of
\* the landmarks 5, 6, 7, 8; last_click_time changes only when a click fires.
C17_LeftClickCondition ==
    /\ op = "hand" =>
        Clicks = (IF /\ ~hand_tracker.is_holding
                     /\ was.click_ready
                     /\ FrameContact
                  THEN 1 ELSE 0)
    /\ hand_tracker.last_click_time =
        (IF Clicks > 0 THEN now ELSE was.last_click_time)

\* C17 as amended: the same, for a frame with at least 9 landmarks; a hand of
\* fewer landmarks fires no click.
C17_LeftClickConditionAmended ==
    /\ op = "hand" =>
        Clicks = (IF /\ frame.n >= 9
                     /\ ~hand_tracker.is_holding
                     /\ was.click_ready
                     /\ FrameContact
                  THEN 1 ELSE 0)
    /\ hand_tracker.last_click_time =
        (IF Clicks > 0 THEN now ELSE was.last_click_time)

\* a click fired by the thumb on landmark 7 alone, after an earlier click
C17_ClickOnJoint ==
    /\ op = "hand" /\ Clicks = 1
    /\ frame.jn = 7 /\ frame.dj < ClickRadius /\ frame.d48 >= ClickRadius
    /\ was.last_click_time > 0

\* the pinky tip (20) of the frame is within the right-click radius of the
\* wrist (0)
FramePinkyContact ==
    LET lm == Landmarks(frame)
    IN  20 \in DOMAIN lm /\ NormLess(lm[20], lm[0], RightClickRadius)

\* C18: in a frame with a hand rightClick() is invoked if and only if the
\* pinky-tip/wrist distance is below the right-click radius and at least
\* cooldown has passed since the last right click, Held or not; a right click
\* never changes last_click_time and a left click never changes
\* last_right_click_time.
C18_RightClickIndependent ==
    /\ op = "hand" =>
        RightClicks = (IF FramePinkyContact /\ was.right_ready THEN 1 ELSE 0)
    /\ hand_tracker.last_right_click_time =
        (IF RightClicks > 0 THEN now ELSE was.last_right_click_time)
    /\ hand_tracker.last_click_time =
        (IF Clicks > 0 THEN now ELSE was.last_click_time)

\* a right click fires while the latch stays Held, inside the left cooldown
C18_RightClickWhileHeld ==
    /\ op = "hand" /\ RightClicks = 1
    /\ was.is_holding /\ hand_tracker.is_holding
    /\ ~was.click_ready

\* the place of a call in the order of process_frame
Rank(fn) ==
    CASE fn = "moveTo" -> 1
      [] fn = "scroll" -> 2
      [] fn \in {"mouseDown", "mouseUp"} -> 3
      [] fn = "click" -> 4
      [] fn = "rightClick" -> 5

\* C19: the calls of one frame with a hand come in the order moveTo, scroll,
\* mouseDown or mouseUp, click, rightClick, each at most once; a mouseUp
\* precedes a click of the same frame and no click follows a mouseDown in
\* the same frame.
C19_FrameOrder ==
    op = "hand" =>
        /\ \A i, j \in 1..Len(calls) :
                i < j => Rank(calls[i].fn) < Rank(calls[j].fn)
        /\ MouseDowns > 0 => Clicks = 0

\* one frame moves the cursor, scrolls, releases a hold, clicks left and right
C19_AllFiveCalls ==
    /\ op = "hand" /\ Len(calls) = 5
    /\ calls[1].fn = "moveTo" /\ calls[2].fn = "scroll"
    /\ calls[3].fn = "mouseUp" /\ calls[4].fn = "click"
    /\ calls[5].fn = "rightClick"

\* C20: every frame in which a hand is detected invokes moveTo exactly once,
\* whatever the scroll state, the hold state, the cooldowns and the gestures,
\* and a frame with no hand invokes none.
C20_CursorAlwaysMoves ==
    /\ op = "hand" => Moves = 1
    /\ op = "nohand" => Moves = 0

\* C20 as amended: every frame in which a hand of at least 9 landmarks is
\* detected invokes moveTo exactly once, as the first call of the frame,
\* whatever the scroll state, the hold state, the cooldowns and the gestures;
\* a hand of fewer landmarks, a frame with no hand and a failed frame invoke
\* none.
C20_CursorMovesWithIndexTip ==
    /\ op = "hand" =>
        /\ Moves = (IF frame.n >= 9 THEN 1 ELSE 0)
        /\ frame.n >= 9 => calls[1].fn = "moveTo"
    /\ op \in {"nohand", "failure"} => Moves = 0

\* the cursor moves in a frame that keeps a hold, keeps a scroll running
\* without actuating and sits inside both click cooldowns
C20_MovesWhileBusy ==
    /\ op = "hand" /\ calls = <<Call("moveTo", 0)>>
    /\ was.is_holding /\ hand_tracker.is_holding
    /\ was.is_scrolling /\ hand_tracker.is_scrolling
    /\ ~was.right_ready /\ FramePinkyContact

\* twice the vertical offset of the index/middle midpoint from landmark 9
\* (doubled, so that a midpoint on a half pixel stays an integer)
TwiceOffset ==
    LET lm == Landmarks([frame EXCEPT !.n = FullHand])
    IN  lm[8][2] + lm[12][2] - 2 * lm[9][2]
\* the direction by the exact offset, and by the offset rounded down to a pixel
ExactDirection ==
    IF TwiceOffset < -(2 * DeadBand) THEN "up"
    ELSE IF TwiceOffset > 2 * DeadBand THEN "down" ELSE "none"
FlooredDirection ==
    IF TwiceOffset \div 2 < -DeadBand THEN "up"
    ELSE IF TwiceOffset \div 2 > DeadBand THEN "down" ELSE "none"
Amount(direction) == IF direction = "up" THEN ScrollSpeed ELSE -ScrollSpeed
\* the frame starts a scroll: fingers in the Active zone, scroll state Stopped
StartsScroll ==
    /\ op = "hand" /\ frame.n >= 13 /\ ~was.is_scrolling
    /\ NormLess(Landmarks(frame)[8], Landmarks(frame)[12], ScrollRadius)

\* C21: the direction of a frame is Up if the vertical offset of the
\* index/middle midpoint from landmark 9 is below -15px, Down if it is above
\* +15px and None otherwise; every scroll actuation has amount +speed when
\* the commanded direction is Up and -speed when it is Down, and no actuation
\* happens in a frame whose direction is None.
C21_DirectionAndAmount ==
    op = "hand" =>
        /\ \A i \in ScrollCalls :
            /\ hand_tracker.scroll_direction = ExactDirection
            /\ ExactDirection # "none"
            /\ calls[i].arg = Amount(hand_tracker.scroll_direction)
        /\ (StartsScroll /\ ExactDirection # "none") => ScrollCalls # {}

\* C21 as amended: the same with the vertical offset rounded down to a whole
\* pixel: an offset of +15.5px gives None, an offset of -15.5px gives Up.
C21_DirectionAndAmountAmended ==
    op = "hand" =>
        /\ \A i \in ScrollCalls :
            /\ hand_tracker.scroll_direction = FlooredDirection
            /\ FlooredDirection # "none"
            /\ calls[i].arg = Amount(hand_tracker.scroll_direction)
        /\ (StartsScroll /\ FlooredDirection # "none") => ScrollCalls # {}

\* a scroll that actuated Up one tick earlier meets a frame at an offset of
\* +15.5px, which stops it and actuates nothing
C21_HalfPixelEdges ==
    /\ op = "hand" /\ TwiceOffset = 2 * DeadBand + 1
    /\ was.is_scrolling /\ ~hand_tracker.is_scrolling /\ ScrollCalls = {}
    /\ was.scroll_direction = "up" /\ was.last_scroll_time = now - 1

ThumbIndexWithin(r) ==
    LET lm == Landmarks(frame)
    IN  8 \in DOMAIN lm /\ NormLess(lm[4], lm[8], r)

\* C23: with click_radius <= hold_click_radius (20 and 30), a frame with a
\* hand of at least 9 landmarks whose thumb-tip/index-tip distance is below
\* click_radius puts or keeps the latch Held and invokes no click(); a
\* click() fires only in frames whose thumb-tip/index-tip distance is at
\* least hold_click_radius.
C23_TightPinchNeverClicks ==
    (ClickRadius <= HoldClickRadius /\ op = "hand") =>
        /\ ThumbIndexWithin(ClickRadius) =>
                hand_tracker.is_holding /\ Clicks = 0
        /\ Clicks > 0 =>
                frame.n >= 9 /\ ~ThumbIndexWithin(HoldClickRadius)

\* a tight pinch arrives with the latch Idle and the click cooldown over, and
\* presses the button instead of clicking
C23_TightPinchHolds ==
    /\ op = "hand" /\ ThumbIndexWithin(ClickRadius)
    /\ ~was.is_holding /\ was.click_ready /\ was.last_click_time > 0
    /\ MouseDowns = 1 /\ Clicks = 0

\* the tracking state of the window
tracking == <<tracking_active, timer_active, startEnabled, stopEnabled>>
TrackingConsistent ==
    /\ tracking_active = timer_active
    /\ tracking_active = stopEnabled
    /\ tracking_active = ~startEnabled
    /\ tracking_active => capture = "open"
    /\ op \in {"hand", "nohand", "failure"} => tracking_active
LifecycleStep ==
    /\ (op' = "start" /\ tracking_active) => UNCHANGED <<tracking, capture>>
    /\ (op' = "start" /\ capture' = "unopened") => UNCHANGED tracking
    /\ (op' = "stop" /\ ~tracking_active) => UNCHANGED <<tracking, capture>>
    /\ op' \in {"hand", "nohand", "failure", "noread"} =>
            tracking_active /\ UNCHANGED <<tracking, capture>>

\* C24: after any sequence of start_tracking, stop_tracking and timer ticks,
\* a start_tracking whose camera fails to open included, tracking_active is
\* true iff the frame timer is running iff the stop button is enabled and
\* the start button disabled; process_frame is invoked only while
\* tracking_active is true; start_tracking while active and stop_tracking
\* while inactive change no tracking state.
C24_TrackingLifecycle == []TrackingConsistent /\ [][LifecycleStep]_vars

\* after a session that processed frames and was stopped, a start_tracking
\* whose camera does not open leaves the window inactive
C24_FailedRestart ==
    /\ op = "start" /\ capture = "unopened" /\ now > StartTime
    /\ ~tracking_active /\ ~timer_active /\ startEnabled /\ ~stopEnabled

====
